---- MODULE Spec2Model ----
(***************************************************************************)
(* A model of the educational Redis clone of src/server.py: the streaming  *)
(* RESP parser, the lazily expiring key-value store, the command           *)
(* dispatcher and the asyncio connection handler.                          *)
(*                                                                         *)
(* Byte strings and Python strings are sequences of one-character strings; *)
(* the fixed text of an error message is kept as one token.  An optional   *)
(* value (Python's None or a value) is a sequence of length 0 or 1.        *)
(* Time is counted in ticks of 1/TicksPerSec second, so that a clock value *)
(* can fall strictly between two whole seconds.                            *)
(***************************************************************************)
EXTENDS Integers, Sequences, FiniteSets, TLC

VARIABLES
    data,       \* the global dict: a sequence of [key, value, expires_at], in insertion order
    clock,      \* time.time(), in ticks
    call,       \* the handle_command call made by the latest step, if any
    expire_log, \* history: per key, the EXPIRE with seconds > 0 that gave a key
                \* without TTL its expiry, until a later SET, EXPIRE or DEL names the key
    whole,      \* parser harness: the bytes chosen to be delivered
    stream,     \* parser harness: the bytes not yet fed
    parser,     \* parser harness: the buffer of one RESPParser
    got,        \* parser harness: what the latest get_command returned
    turn,       \* parser harness: "feed" or "get", the call that comes next
    inbox,      \* per connection: bytes sent by the peer and not yet read
    buffer,     \* per connection: the buffer of the connection's RESPParser
    outbox,     \* per connection: the replies written, in order
    pc,         \* per connection: "read" (awaiting reader.read), "drain" (in the
                \* inner loop, about to call get_command) or "closed"
    peer,       \* per connection: "open", "closed" (EOF sent) or "reset"
    sent,       \* number of messages the peers have sent
    arrived,    \* history, per connection: the messages its peer has sent, in order
    history,    \* history: the handle_command calls of the handlers, in order
    file,       \* the snapshot file dump.json: its records in order, or None (no file)
    proc        \* the server process: "start" (before load_data), "serving"
                \* or "stopped" (after the save_data of main's finally)

storeVars == <<data, clock, call, expire_log>>
harnessVars == <<whole, stream, parser, got, turn>>
connVars == <<inbox, buffer, outbox, pc, peer, sent, arrived, history>>
diskVars == <<file, proc>>
vars == <<data, clock, call, expire_log, whole, stream, parser, got, turn,
          inbox, buffer, outbox, pc, peer, sent, arrived, history, file, proc>>

-----------------------------------------------------------------------------
(* Bounds of the model *)

TicksPerSec == 2
ClockStart == 2
MaxClock == 5
MaxSends == 2

Conns == {1, 2}

-----------------------------------------------------------------------------
(* Optional values and characters *)

None == <<>>
Some(x) == <<x>>
IsNone(o) == o = <<>>
The(o) == o[1]

CR == "\r"
LF == "\n"
CRLF == <<CR, LF>>

Digits == <<"0", "1", "2", "3", "4", "5", "6", "7", "8", "9">>
IsDigit(c) == \E i \in 1..10 : Digits[i] = c
DigitVal(c) == (CHOOSE i \in 1..10 : Digits[i] = c) - 1

Whitespace == {" ", CR, LF}

Lower == <<"a", "b", "c", "d", "e", "f", "g", "h", "i", "j", "k", "l", "m",
           "n", "o", "p", "q", "r", "s", "t", "u", "v", "w", "x", "y", "z">>
UpperOf == <<"A", "B", "C", "D", "E", "F", "G", "H", "I", "J", "K", "L", "M",
             "N", "O", "P", "Q", "R", "S", "T", "U", "V", "W", "X", "Y", "Z">>

UpperMap == [c \in {Lower[j] : j \in 1..26} |-> UpperOf[CHOOSE j \in 1..26 : Lower[j] = c]]

\* str.upper(), character by character
upper(s) ==
    [i \in 1..Len(s) |-> IF s[i] \in DOMAIN UpperMap THEN UpperMap[s[i]] ELSE s[i]]

\* an index of a Python slice or find, normalised: negative counts from the end
Norm(i, n) == IF i < 0 THEN (IF i + n < 0 THEN 0 ELSE i + n) ELSE (IF i > n THEN n ELSE i)

\* s[from:to] of Python (0-based, to excluded)
Slice(s, from, to) ==
    LET a == Norm(from, Len(s))
        b == Norm(to, Len(s))
    IN  IF b <= a THEN <<>> ELSE SubSeq(s, a + 1, b)

\* s[from:] of Python
SliceFrom(s, from) == Slice(s, from, Len(s))

\* s.find(b"\r\n", start): the 0-based index of the first CR LF at or after start, or -1
Find(s, start) ==
    LET from == Norm(start, Len(s))
        hits == {i \in from..(Len(s) - 2) : s[i + 1] = CR /\ s[i + 2] = LF}
    IN  IF hits = {} THEN 0 - 1 ELSE CHOOSE i \in hits : \A j \in hits : i <= j

\* str.split(): the maximal runs of characters that are not whitespace
RECURSIVE SplitFrom(_, _, _)
SplitFrom(s, i, word) ==
    IF i > Len(s) THEN (IF word = <<>> THEN <<>> ELSE <<word>>)
    ELSE IF s[i] \in Whitespace
         THEN (IF word = <<>> THEN <<>> ELSE <<word>>) \o SplitFrom(s, i + 1, <<>>)
         ELSE SplitFrom(s, i + 1, Append(word, s[i]))

split(s) == SplitFrom(s, 1, <<>>)

\* UTF-8: every character of the model is ASCII, one byte that is itself,
\* except EAcute, whose encoding is the two bytes Utf8Lead Utf8Cont.
\* InvalidByte is a byte that occurs in no encoding.
EAcute == "<e-acute>"
Utf8Lead == "<c3>"
Utf8Cont == "<a9>"
InvalidByte == "<ff>"

\* str.encode()
RECURSIVE EncodeFrom(_)
EncodeFrom(s) ==
    IF s = <<>> THEN <<>>
    ELSE (IF Head(s) = EAcute THEN <<Utf8Lead, Utf8Cont>> ELSE <<Head(s)>>)
         \o EncodeFrom(Tail(s))

encode(s) == IF \A i \in 1..Len(s) : s[i] # EAcute THEN s ELSE EncodeFrom(s)

\* bytes.decode(): None where Python raises UnicodeDecodeError
RECURSIVE DecodeFrom(_, _, _)
DecodeFrom(b, i, out) ==
    IF i > Len(b) THEN Some(out)
    ELSE IF b[i] = Utf8Lead
         THEN (IF i < Len(b) /\ b[i + 1] = Utf8Cont
               THEN DecodeFrom(b, i + 2, Append(out, EAcute))
               ELSE None)
    ELSE IF b[i] \in {Utf8Cont, InvalidByte} THEN None
    ELSE DecodeFrom(b, i + 1, Append(out, b[i]))

decode(b) ==
    IF \A i \in 1..Len(b) : b[i] \notin {Utf8Lead, Utf8Cont, InvalidByte}
    THEN Some(b)
    ELSE DecodeFrom(b, 1, <<>>)

RECURSIVE NatStr(_)
NatStr(n) ==
    IF n < 10 THEN <<Digits[n + 1]>>
    ELSE NatStr(n \div 10) \o <<Digits[(n % 10) + 1]>>

\* str(n) for an int n
IntStr(n) == IF n < 0 THEN <<"-">> \o NatStr(0 - n) ELSE NatStr(n)

Strip(s) ==
    LET keep == {i \in 1..Len(s) : s[i] \notin Whitespace}
    IN  IF keep = {} THEN <<>>
        ELSE SubSeq(s, CHOOSE i \in keep : \A j \in keep : i <= j,
                       CHOOSE i \in keep : \A j \in keep : j <= i)

RECURSIVE DigitsVal(_)
DigitsVal(s) ==
    IF s = <<>> THEN 0
    ELSE 10 * DigitsVal(SubSeq(s, 1, Len(s) - 1)) + DigitVal(s[Len(s)])

\* int(s): the value, or None where Python raises ValueError.  Surrounding
\* whitespace and one leading sign are accepted, as int() accepts them.
IntParse(s) ==
    LET t == Strip(s)
        signed == t # <<>> /\ t[1] \in {"-", "+"}
        body == IF signed THEN Tail(t) ELSE t
    IN  IF body = <<>> \/ \E i \in 1..Len(body) : ~IsDigit(body[i])
        THEN None
        ELSE Some(IF signed /\ t[1] = "-" THEN 0 - DigitsVal(body) ELSE DigitsVal(body))

-----------------------------------------------------------------------------
(* Streaming RESP parser: the operations of RESPParser on its buffer *)

feed(buf, bytes) == buf \o bytes

\* what get_command does: the command returned (None: no command yet), the
\* buffer afterwards, and whether the call raised instead of returning
NoCommand(buf) == [raised |-> FALSE, command |-> None, buffer |-> buf]
Command(args, buf) == [raised |-> FALSE, command |-> Some(args), buffer |-> buf]
ParseRaised(buf) == [raised |-> TRUE, command |-> None, buffer |-> buf]

\* Fault seeded for C8: the payload's two-byte terminator is not waited for
parse_bulk_string_at_no_terminator(buf, start) ==
    IF start >= Len(buf) \/ Slice(buf, start, start + 1) # <<"$">>
    THEN [ok |-> FALSE, raised |-> FALSE]
    ELSE LET end == Find(buf, start)
         IN  IF end = 0 - 1 THEN [ok |-> FALSE, raised |-> FALSE]
             ELSE LET length == IntParse(Slice(buf, start + 1, end))
                  IN  IF IsNone(length) THEN [ok |-> FALSE, raised |-> FALSE]
                      ELSE LET data_start == end + 2
                               data_end == data_start + The(length)
                               value == decode(Slice(buf, data_start, data_end))
                           IN  IF Len(buf) < data_end
                               THEN [ok |-> FALSE, raised |-> FALSE]
                               ELSE IF IsNone(value) THEN [ok |-> FALSE, raised |-> TRUE]
                               ELSE [ok |-> TRUE, raised |-> FALSE,
                                     value |-> The(value), new_pos |-> data_end + 2]

\* _parse_bulk_string_at: ok FALSE is the None it returns
parse_bulk_string_at(buf, start) ==
    IF start >= Len(buf) \/ Slice(buf, start, start + 1) # <<"$">>
    THEN [ok |-> FALSE, raised |-> FALSE]
    ELSE LET end == Find(buf, start)
         IN  IF end = 0 - 1 THEN [ok |-> FALSE, raised |-> FALSE]
             ELSE LET length == IntParse(Slice(buf, start + 1, end))
                  IN  IF IsNone(length) THEN [ok |-> FALSE, raised |-> FALSE]
                      ELSE LET data_start == end + 2
                               data_end == data_start + The(length)
                               value == decode(Slice(buf, data_start, data_end))
                           IN  IF Len(buf) < data_end + 2
                               THEN [ok |-> FALSE, raised |-> FALSE]
                               ELSE IF IsNone(value) THEN [ok |-> FALSE, raised |-> TRUE]
                               ELSE [ok |-> TRUE, raised |-> FALSE,
                                     value |-> The(value), new_pos |-> data_end + 2]

\* the loop of _parse_array over the declared elements
RECURSIVE ParseElements(_, _, _, _)
ParseElements(buf, left, pos, args) ==
    IF left <= 0 THEN Command(args, SliceFrom(buf, pos))
    ELSE LET result == parse_bulk_string_at(buf, pos)
         IN  IF result.raised THEN ParseRaised(buf)
             ELSE IF ~result.ok THEN NoCommand(buf)
             ELSE ParseElements(buf, left - 1, result.new_pos,
                                Append(args, result.value))

parse_array(buf) ==
    LET end == Find(buf, 0)
    IN  IF end = 0 - 1 THEN NoCommand(buf)
        ELSE LET count == IntParse(Slice(buf, 1, end))
             IN  IF IsNone(count) THEN NoCommand(SliceFrom(buf, 1))
                 ELSE ParseElements(buf, The(count), end + 2, <<>>)

parse_inline(buf) ==
    LET end == Find(buf, 0)
    IN  IF end = 0 - 1 THEN NoCommand(buf)
        ELSE LET line == decode(Slice(buf, 0, end))
             IN  IF IsNone(line) THEN ParseRaised(buf)
                 ELSE Command(split(The(line)), SliceFrom(buf, end + 2))

get_command(buf) ==
    IF buf = <<>> THEN NoCommand(buf)
    ELSE IF Slice(buf, 0, 1) = <<"*">> THEN parse_array(buf)
    ELSE parse_inline(buf)

-----------------------------------------------------------------------------
(* RESP responses *)

simple_string(msg) == encode(<<"+">> \o msg \o CRLF)

error(msg) == encode(<<"-">> \o msg \o CRLF)

bulk_string(val) ==
    IF IsNone(val) THEN <<"$", "-", "1">> \o CRLF
    ELSE encode(<<"$">> \o IntStr(Len(The(val))) \o CRLF \o The(val) \o CRLF)

integer(val) == encode(<<":">> \o IntStr(val) \o CRLF)

-----------------------------------------------------------------------------
(* The dict `data`: key -> (value, expires_at), kept in insertion order *)

Has(d, key) == \E i \in 1..Len(d) : d[i].key = key

IndexOf(d, key) == CHOOSE i \in 1..Len(d) : d[i].key = key

Entry(d, key) == d[IndexOf(d, key)]

\* data[key] = (value, expires_at): an existing key keeps its position
DictSet(d, key, value, expires_at) ==
    LET e == [key |-> key, value |-> value, expires_at |-> expires_at]
    IN  IF Has(d, key) THEN [d EXCEPT ![IndexOf(d, key)] = e] ELSE Append(d, e)

\* del data[key] / data.pop(key)
DictDel(d, key) ==
    LET i == IndexOf(d, key)
    IN  SubSeq(d, 1, i - 1) \o SubSeq(d, i + 1, Len(d))

\* Python's truth value of expires_at: None and 0.0 are false
Truthy(expires_at) == ~IsNone(expires_at) /\ The(expires_at) # 0

-----------------------------------------------------------------------------
(* Key expiration (lazy deletion) *)

\* Fault seeded for C5: an entry counts as expired at the very instant of its expiry
is_expired_at_instant(d, key, now) ==
    IF ~Has(d, key) THEN [expired |-> TRUE, data |-> d]
    ELSE LET expires_at == Entry(d, key).expires_at
         IN  IF Truthy(expires_at) /\ now >= The(expires_at)
             THEN [expired |-> TRUE, data |-> DictDel(d, key)]
             ELSE [expired |-> FALSE, data |-> d]

is_expired(d, key, now) ==
    IF ~Has(d, key) THEN [expired |-> TRUE, data |-> d]
    ELSE LET expires_at == Entry(d, key).expires_at
         IN  IF Truthy(expires_at) /\ now > The(expires_at)
             THEN [expired |-> TRUE, data |-> DictDel(d, key)]
             ELSE [expired |-> FALSE, data |-> d]

get_value(d, key, now) ==
    LET r == is_expired(d, key, now)
    IN  IF r.expired THEN [value |-> None, data |-> r.data]
        ELSE [value |-> Some(Entry(d, key).value), data |-> r.data]

\* Fault seeded for C4: SET keeps the expiry of the entry it overwrites
set_value_keeps_ttl(d, key, value, expires_at) ==
    DictSet(d, key, value, IF Has(d, key) THEN Entry(d, key).expires_at ELSE expires_at)

set_value(d, key, value, expires_at) == DictSet(d, key, value, expires_at)

-----------------------------------------------------------------------------
(* Persistence.  The file is kept as the JSON object that json.dump writes and
   json.load reads back: the records {"value", "expires_at"} under their keys,
   in the order of the dict. *)

\* the test of lines 231 and 249: `expires_at and now > expires_at`
Outdated(expires_at, now) == Truthy(expires_at) /\ now > The(expires_at)

\* save_data: the object written; data itself is only read
save_data(d, now) == SelectSeq(d, LAMBDA e : ~Outdated(e.expires_at, now))

\* the loop of load_data over saved.items()
RECURSIVE LoadFrom(_, _, _)
LoadFrom(saved, d, now) ==
    IF saved = <<>> THEN d
    ELSE LET e == Head(saved)
         IN  LoadFrom(Tail(saved),
                      IF Outdated(e.expires_at, now) THEN d
                      ELSE DictSet(d, e.key, e.value, e.expires_at),
                      now)

\* load_data: nothing is done when the file does not exist
load_data(f, d, now) == IF IsNone(f) THEN d ELSE LoadFrom(The(f), d, now)

-----------------------------------------------------------------------------
(* Command handlers *)

PING == <<"P", "I", "N", "G">>
PING_REPLY == <<"P", "O", "N", "G">>
SET == <<"S", "E", "T">>
GET == <<"G", "E", "T">>
EXPIRE == <<"E", "X", "P", "I", "R", "E">>
TTL == <<"T", "T", "L">>
DEL == <<"D", "E", "L">>
KEYS == <<"K", "E", "Y", "S">>

ErrEmpty == <<"ERR empty command">>
ErrArity(name) == <<"ERR wrong number of arguments for '">> \o name \o <<"'">>
ErrNotInteger == <<"ERR value is not an integer">>
ErrUnknown(cmd) == <<"ERR unknown command '">> \o cmd \o <<"'">>

\* a reply and the dict after the call; reply None: the call raised
Returned(reply, d) == [reply |-> Some(reply), data |-> d]
Raised(d) == [reply |-> None, data |-> d]

\* int(x) of a number of ticks divided by the tick rate: truncation toward zero
TruncSeconds(ticks) ==
    IF ticks >= 0 THEN ticks \div TicksPerSec ELSE 0 - ((0 - ticks) \div TicksPerSec)

handle_SET(args, d) ==
    IF Len(args) < 3 THEN Returned(error(ErrArity(SET)), d)
    ELSE Returned(simple_string(<<"O", "K">>), set_value(d, args[2], args[3], None))

handle_GET(args, d, now) ==
    IF Len(args) < 2 THEN Returned(error(ErrArity(GET)), d)
    ELSE LET r == get_value(d, args[2], now)
         IN  Returned(bulk_string(r.value), r.data)

handle_EXPIRE(args, d, now) ==
    IF Len(args) < 3 THEN Returned(error(ErrArity(EXPIRE)), d)
    ELSE LET seconds == IntParse(args[3])
             key == args[2]
         IN  IF IsNone(seconds) THEN Returned(error(ErrNotInteger), d)
             ELSE IF ~Has(d, key) THEN Returned(integer(0), d)
             ELSE LET r == is_expired(d, key, now)
                  IN  IF r.expired THEN Returned(integer(0), r.data)
                      ELSE Returned(integer(1),
                               DictSet(d, key, Entry(d, key).value,
                                       Some(now + The(seconds) * TicksPerSec)))

\* Fault seeded for C14: TTL of a key that is not in the dict replies -1
handle_TTL_absent_no_ttl(args, d, now) ==
    IF Len(args) < 2 THEN Returned(error(ErrArity(TTL)), d)
    ELSE LET key == args[2]
         IN  IF ~Has(d, key) THEN Returned(integer(0 - 1), d)
             ELSE LET expires_at == Entry(d, key).expires_at
                  IN  IF IsNone(expires_at) THEN Returned(integer(0 - 1), d)
                      ELSE LET remaining == TruncSeconds(The(expires_at) - now)
                           IN  IF remaining < 0
                               THEN Returned(integer(0 - 2), DictDel(d, key))
                               ELSE Returned(integer(remaining), d)

\* Fault seeded for C20: TTL deletes the entry as soon as no whole second remains
handle_TTL_purges_at_zero(args, d, now) ==
    IF Len(args) < 2 THEN Returned(error(ErrArity(TTL)), d)
    ELSE LET key == args[2]
         IN  IF ~Has(d, key) THEN Returned(integer(0 - 2), d)
             ELSE LET expires_at == Entry(d, key).expires_at
                  IN  IF IsNone(expires_at) THEN Returned(integer(0 - 1), d)
                      ELSE LET remaining == TruncSeconds(The(expires_at) - now)
                           IN  IF remaining <= 0
                               THEN Returned(integer(0 - 2), DictDel(d, key))
                               ELSE Returned(integer(remaining), d)

handle_TTL(args, d, now) ==
    IF Len(args) < 2 THEN Returned(error(ErrArity(TTL)), d)
    ELSE LET key == args[2]
         IN  IF ~Has(d, key) THEN Returned(integer(0 - 2), d)
             ELSE LET expires_at == Entry(d, key).expires_at
                  IN  IF IsNone(expires_at) THEN Returned(integer(0 - 1), d)
                      ELSE LET remaining == TruncSeconds(The(expires_at) - now)
                           IN  IF remaining < 0
                               THEN Returned(integer(0 - 2), DictDel(d, key))
                               ELSE Returned(integer(remaining), d)

\* line 179: the generator pops every listed key that is present; its sum is
\* overwritten by the `count = 0` of line 180
RECURSIVE DelPopAll(_, _)
DelPopAll(keys, d) ==
    IF keys = <<>> THEN d
    ELSE DelPopAll(Tail(keys), IF Has(d, Head(keys)) THEN DictDel(d, Head(keys)) ELSE d)

\* lines 180-184: the counting loop
RECURSIVE DelLoop(_, _, _)
DelLoop(keys, d, count) ==
    IF keys = <<>> THEN [count |-> count, data |-> d]
    ELSE IF Has(d, Head(keys))
         THEN DelLoop(Tail(keys), DictDel(d, Head(keys)), count + 1)
         ELSE DelLoop(Tail(keys), d, count)

\* Fault seeded for C7: DEL removes only the first listed key
handle_DEL_first_key(args, d) ==
    IF Len(args) < 2 THEN Returned(error(ErrArity(DEL)), d)
    ELSE LET r == DelLoop(<<args[2]>>, d, 0)
         IN  Returned(integer(r.count), r.data)

handle_DEL(args, d) ==
    IF Len(args) < 2 THEN Returned(error(ErrArity(DEL)), d)
    ELSE LET r == DelLoop(Tail(args), DelPopAll(Tail(args), d), 0)
         IN  Returned(integer(r.count), r.data)

\* the comprehension of line 188 iterates data.keys() while is_expired deletes
\* from data: the iterator's next step after a deletion raises RuntimeError
RECURSIVE KeysScan(_, _, _, _)
KeysScan(d, i, keys, now) ==
    IF i > Len(d) THEN [raised |-> FALSE, keys |-> keys, data |-> d]
    ELSE LET r == is_expired(d, d[i].key, now)
         IN  IF r.expired THEN [raised |-> TRUE, keys |-> keys, data |-> r.data]
             ELSE KeysScan(d, i + 1, Append(keys, d[i].key), now)

RECURSIVE BulkAll(_)
BulkAll(keys) ==
    IF keys = <<>> THEN <<>>
    ELSE <<"$">> \o IntStr(Len(Head(keys))) \o CRLF \o Head(keys) \o CRLF
         \o BulkAll(Tail(keys))

ArrayReply(keys) == encode(<<"*">> \o IntStr(Len(keys)) \o CRLF \o BulkAll(keys))

handle_KEYS(d, now) ==
    LET r == KeysScan(d, 1, <<>>, now)
    IN  IF r.raised THEN Raised(r.data) ELSE Returned(ArrayReply(r.keys), r.data)

\* lines 126-195: the dispatch on the upper-cased first element
dispatch(args, d, now) ==
    LET cmd == upper(args[1])
    IN  CASE cmd = PING -> Returned(simple_string(PING_REPLY), d)
          [] cmd = SET -> handle_SET(args, d)
          [] cmd = GET -> handle_GET(args, d, now)
          [] cmd = EXPIRE -> handle_EXPIRE(args, d, now)
          [] cmd = TTL -> handle_TTL(args, d, now)
          [] cmd = DEL -> handle_DEL(args, d)
          [] cmd = KEYS -> handle_KEYS(d, now)
          [] OTHER -> Returned(error(ErrUnknown(cmd)), d)

\* Fault seeded for C9: without the `if not args` guard, args[0] raises IndexError
handle_command_unguarded(args, d, now) ==
    IF args = <<>> THEN Raised(d) ELSE dispatch(args, d, now)

handle_command(args, d, now) ==
    IF args = <<>> THEN Returned(error(ErrEmpty), d) ELSE dispatch(args, d, now)

-----------------------------------------------------------------------------
(* Inputs of the dispatcher model *)

KeyA == <<"a">>
KeyB == <<"b">>
Keys == {KeyA, KeyB}
Values == {<<"x">>, <<"y">>}
SecondsArgs == {<<"-", "1">>, <<"0">>, <<"1">>}
NotAnInteger == <<"z">>

NoCall == [conn |-> 0, args |-> None, reply |-> None]

NoResult == [raised |-> FALSE, command |-> None]

StoreInit ==
    /\ data = <<>>
    /\ clock = ClockStart
    /\ call = NoCall
    /\ expire_log = [k \in Keys |-> None]

\* no parser under test
HarnessIdle ==
    /\ whole = <<>>
    /\ stream = <<>>
    /\ parser = <<>>
    /\ got = NoResult
    /\ turn = "feed"

\* no connection accepted
ConnsIdle ==
    /\ inbox = [c \in Conns |-> <<>>]
    /\ buffer = [c \in Conns |-> <<>>]
    /\ outbox = [c \in Conns |-> <<>>]
    /\ pc = [c \in Conns |-> "closed"]
    /\ peer = [c \in Conns |-> "closed"]
    /\ sent = 0
    /\ arrived = [c \in Conns |-> <<>>]
    /\ history = <<>>

\* a running server without snapshot file
DiskIdle ==
    /\ file = None
    /\ proc = "serving"

TypeOK ==
    /\ clock \in ClockStart..MaxClock
    /\ \A i \in 1..Len(data) : data[i].key \in Keys /\ data[i].value \in Values
    /\ \A i, j \in 1..Len(data) : data[i].key = data[j].key => i = j
    /\ \A c \in Conns : pc[c] \in {"read", "drain", "closed"}
    /\ \A c \in Conns : peer[c] \in {"open", "closed", "reset"}
    /\ turn \in {"feed", "get"}

Init == StoreInit /\ HarnessIdle /\ ConnsIdle /\ DiskIdle

\* args is a SET, EXPIRE or DEL that names key
Touches(args, key) ==
    /\ Len(args) >= 2
    /\ \E i \in 2..Len(args) : args[i] = key
    /\ \/ args[2] = key /\ upper(args[1]) \in {SET, EXPIRE}
       \/ upper(args[1]) = DEL

\* args is EXPIRE key s with s > 0, and key is in d without TTL
ExpireOfFresh(args, d, key) ==
    /\ Len(args) >= 3
    /\ args[2] = key
    /\ upper(args[1]) = EXPIRE
    /\ ~IsNone(IntParse(args[3])) /\ The(IntParse(args[3])) > 0
    /\ Has(d, key) /\ IsNone(Entry(d, key).expires_at)

Logged(args, d, now, log) ==
    [k \in Keys |->
        IF ExpireOfFresh(args, d, k)
        THEN Some([at |-> now, seconds |-> The(IntParse(args[3])),
                   value |-> Entry(d, k).value])
        ELSE IF Touches(args, k) THEN None ELSE log[k]]

\* the spec's liveness of an entry: expiry absent or not yet passed
Live(e, now) == IsNone(e.expires_at) \/ now <= The(e.expires_at)

\* args is a command that reaches key in the store
Accesses(args, key) ==
    /\ args # <<>>
    /\ \/ upper(args[1]) = KEYS
       \/ Len(args) >= 2 /\ args[2] = key /\ upper(args[1]) \in {GET, TTL}
       \/ Len(args) >= 3 /\ args[2] = key /\ upper(args[1]) = SET
       \/ /\ Len(args) >= 3 /\ args[2] = key /\ upper(args[1]) = EXPIRE
          /\ ~IsNone(IntParse(args[3]))
       \/ /\ Len(args) >= 2 /\ upper(args[1]) = DEL
          /\ \E i \in 2..Len(args) : args[i] = key

\* args is EXPIRE key s with s <= 0, and key is live in d
ExpireToPast(args, d, key, now) ==
    /\ Len(args) >= 3
    /\ args[2] = key
    /\ upper(args[1]) = EXPIRE
    /\ ~IsNone(IntParse(args[3])) /\ The(IntParse(args[3])) <= 0
    /\ Has(d, key) /\ Live(Entry(d, key), now)

\* handle_command(args), called directly
Dispatch(args) ==
    \E r \in {handle_command(args, data, clock)} :
        /\ data' = r.data
        /\ call' = [conn |-> 0, args |-> Some(args), reply |-> r.reply]
        /\ expire_log' = Logged(args, data, clock, expire_log)
        /\ UNCHANGED <<clock, harnessVars, connVars, diskVars>>

PingInputs == {<<PING>>, <<<<"p", "i", "n", "g">>>>}
SetInputs ==
    {<<SET, KeyA, <<"x">>>>, <<SET, KeyA, <<"y">>>>, <<SET, KeyB, <<"x">>>>,
     <<SET, KeyA, <<"x">>, <<"y">>>>, <<SET, KeyA>>, <<SET>>}
GetInputs == {<<GET, k>> : k \in Keys} \cup {<<<<"g", "e", "t">>, KeyA>>, <<GET>>}
ExpireInputs ==
    {<<EXPIRE, k, s>> : k \in Keys, s \in SecondsArgs}
        \cup {<<EXPIRE, KeyA, NotAnInteger>>, <<EXPIRE, KeyA>>}
TtlInputs == {<<TTL, k>> : k \in Keys} \cup {<<TTL>>}
DelInputs ==
    {<<DEL, k>> : k \in Keys} \cup {<<DEL, KeyA, KeyB>>, <<DEL, KeyA, KeyA>>, <<DEL>>}
RejectedInputs == {<<>>, <<<<"F", "O", "O">>>>}

Ping == \E a \in PingInputs : Dispatch(a)

Set == \E a \in SetInputs : Dispatch(a)

Get == \E a \in GetInputs : Dispatch(a)

Expire == \E a \in ExpireInputs : Dispatch(a)

Ttl == \E a \in TtlInputs : Dispatch(a)

Del == \E a \in DelInputs : Dispatch(a)

KeysCmd == Dispatch(<<KEYS>>)

Rejected == \E a \in RejectedInputs : Dispatch(a)

\* time passes between two commands
Tick ==
    /\ clock < MaxClock
    /\ clock' = clock + 1
    /\ call' = NoCall
    /\ UNCHANGED <<data, expire_log, harnessVars, connVars, diskVars>>

Next == Ping \/ Set \/ Get \/ Expire \/ Ttl \/ Del \/ KeysCmd \/ Rejected \/ Tick

Spec == Init /\ [][Next]_vars

-----------------------------------------------------------------------------
(* The life of the server process, main(): load_data, the commands served,
   the save_data of the finally clause, and the next start of the program *)

\* the snapshot of the scenario: one live record and one already expired, and
\* a record that expires at the very start
ScenarioFile ==
    <<[key |-> KeyA, value |-> <<"x">>, expires_at |-> None],
      [key |-> KeyB, value |-> <<"y">>, expires_at |-> Some(ClockStart - 1)]>>
BoundaryFile == <<[key |-> KeyB, value |-> <<"y">>, expires_at |-> Some(ClockStart)]>>
SnapshotFiles == {None, Some(ScenarioFile), Some(BoundaryFile)}

InitSnapshot ==
    /\ HarnessIdle /\ ConnsIdle
    /\ data = <<>>
    /\ clock = ClockStart
    /\ call = NoCall
    /\ expire_log = [k \in Keys |-> None]
    /\ file \in SnapshotFiles
    /\ proc = "start"

\* line 257: load_data() at the start of main
LoadData ==
    /\ proc = "start"
    /\ data' = load_data(file, data, clock)
    /\ proc' = "serving"
    /\ call' = NoCall
    /\ UNCHANGED <<clock, expire_log, file, harnessVars, connVars>>

\* the commands served between load and save
ServedInputs ==
    {<<SET, KeyA, <<"x">>>>, <<EXPIRE, KeyA, <<"-", "1">>>>,
     <<EXPIRE, KeyB, <<"1">>>>, <<GET, KeyA>>, <<GET, KeyB>>}
Serve == proc = "serving" /\ \E args \in ServedInputs : Dispatch(args)

\* line 267: save_data() when serve_forever ends
SaveData ==
    /\ proc = "serving"
    /\ file' = Some(save_data(data, clock))
    /\ proc' = "stopped"
    /\ call' = NoCall
    /\ UNCHANGED <<data, clock, expire_log, harnessVars, connVars>>

\* the program is started again: line 11, data = {}
Restart ==
    /\ proc = "stopped"
    /\ proc' = "start"
    /\ data' = <<>>
    /\ expire_log' = [k \in Keys |-> None]
    /\ call' = NoCall
    /\ UNCHANGED <<clock, file, harnessVars, connVars>>

NextSnapshot == LoadData \/ Serve \/ SaveData \/ Restart \/ Tick

SpecSnapshot == InitSnapshot /\ [][NextSnapshot]_vars

-----------------------------------------------------------------------------
(* The parser alone: one RESPParser is fed a byte string in chunks, and
   get_command is called after each feed *)

\* client.py, send(): the array-of-bulk-strings form of a command vector
send(args) == encode(<<"*">> \o IntStr(Len(args)) \o CRLF \o BulkAll(args))

\* the inline form: the words separated by one space, then CR LF
RECURSIVE Join(_)
Join(words) ==
    IF words = <<>> THEN <<>>
    ELSE IF Len(words) = 1 THEN words[1]
    ELSE words[1] \o <<" ">> \o Join(Tail(words))

inline(args) == Join(args) \o CRLF

\* a key of ten bytes: its length prefix has two digits
LongKey == [i \in 1..10 |-> "k"]

\* well-formed commands, in both forms; one bulk string holds a CR LF, one is
\* empty, one is long
ArrayCommands ==
    {<<>>, <<PING>>, <<GET, KeyA>>, <<SET, KeyA, <<"x">>>>, <<SET, KeyA, <<>>>>,
     <<SET, KeyB, CRLF>>, <<EXPIRE, KeyA, <<"-", "1">>>>, <<GET, LongKey>>}
InlineCommands == {<<>>, <<PING>>, <<GET, KeyA>>, <<SET, KeyA, <<"x">>>>, <<DEL, KeyA, KeyB>>}

WellFormed == {send(a) : a \in ArrayCommands} \cup {inline(a) : a \in InlineCommands}

\* an array frame followed by the bytes of a later command; in the second
\* frame the element is the null bulk string, `$-1`
NullBulkFrame == <<"*", "1">> \o CRLF \o <<"$", "-", "1">> \o CRLF
Pipelined == {send(<<GET, KeyA>>) \o inline(<<PING>>), NullBulkFrame \o inline(<<PING>>)}

\* the store that holds the keys of ks, in this order, without expiry
StoreOf(ks) == [i \in 1..Len(ks) |-> [key |-> ks[i], value |-> <<"x">>, expires_at |-> None]]

\* replies of the server: of KEYS on a store, and of bulk_string on a value;
\* one string is empty, one holds a CR LF, one a character of two bytes
KeyLists == {<<>>, <<KeyA>>, <<KeyA, KeyB>>, <<KeyB, CRLF>>, <<LongKey>>, <<<<EAcute>>, KeyA>>}
KeysReply(ks) == The(handle_command(<<KEYS>>, StoreOf(ks), ClockStart).reply)
KeysReplies == {KeysReply(ks) : ks \in KeyLists}
CodecValues == {<<>>, <<"x">>, <<"x">> \o CRLF \o <<"y">>, LongKey, <<"x", EAcute>>}
BulkReplies == {bulk_string(Some(v)) : v \in CodecValues}

InitParser ==
    /\ StoreInit /\ ConnsIdle /\ DiskIdle
    /\ whole \in WellFormed \cup Pipelined \cup KeysReplies \cup BulkReplies
    /\ stream = whole
    /\ parser = <<>>
    /\ got = NoResult
    /\ turn = "feed"

\* parser.feed(chunk), chunk being the next n bytes
Feed(n) ==
    /\ turn = "feed"
    /\ n \in 1..Len(stream)
    /\ parser' = feed(parser, SubSeq(stream, 1, n))
    /\ stream' = SubSeq(stream, n + 1, Len(stream))
    /\ turn' = "get"
    /\ UNCHANGED <<whole, got, storeVars, connVars, diskVars>>

\* parser.get_command(), called on a command or on a reply of KEYS
GetCommand ==
    /\ turn = "get"
    /\ whole \notin BulkReplies
    /\ \E r \in {get_command(parser)} :
           /\ got' = [raised |-> r.raised, command |-> r.command]
           /\ parser' = r.buffer
    /\ turn' = "feed"
    /\ UNCHANGED <<whole, stream, storeVars, connVars, diskVars>>

\* parser._parse_bulk_string_at(0), called on a reply of bulk_string
ParseBulkAt ==
    /\ turn = "get"
    /\ whole \in BulkReplies
    /\ \E r \in {parse_bulk_string_at(parser, 0)} :
           got' = [raised |-> r.raised,
                   command |-> IF r.ok THEN Some(<<r.value>>) ELSE None]
    /\ turn' = "feed"
    /\ UNCHANGED <<whole, stream, parser, storeVars, connVars, diskVars>>

NextParser == (\E n \in 1..Len(stream) : Feed(n)) \/ GetCommand \/ ParseBulkAt

SpecParser == InitParser /\ [][NextParser]_vars

-----------------------------------------------------------------------------
(* The server: handle_client on every accepted connection, all sharing data.
   A handler suspends only in reader.read and in writer.drain, so a step runs
   from one of these awaits to the next: ReadChunk from the return of
   reader.read through feed and the first pass of the inner loop, Drain one
   further pass of the inner loop. *)

TooFew == {<<SET, KeyA>>, <<GET>>, <<EXPIRE, KeyA>>, <<TTL>>, <<DEL>>}

\* commands that succeed
Plain == {inline(a) : a \in {<<SET, KeyA, <<"y">>>>, <<KEYS>>}}

\* every kind of command error
Erroneous ==
    {inline(<<>>), send(<<>>), inline(<<<<"F", "O", "O">>>>),
     inline(<<EXPIRE, KeyA, NotAnInteger>>)}
        \cup {inline(a) : a \in TooFew}

\* what the peer of a connection may send: the first peer anything, the others
\* commands that succeed
Wire(c) == IF c = 1 THEN Plain \cup Erroneous ELSE Plain

\* the store after load_data: empty, or one key about to expire
LoadedStores == {<<>>, <<[key |-> KeyA, value |-> <<"x">>, expires_at |-> Some(ClockStart)]>>}

InitServer ==
    /\ HarnessIdle
    /\ data \in LoadedStores
    /\ clock = ClockStart
    /\ call = NoCall
    /\ expire_log = [k \in Keys |-> None]
    /\ inbox = [c \in Conns |-> <<>>]
    /\ buffer = [c \in Conns |-> <<>>]
    /\ outbox = [c \in Conns |-> <<>>]
    /\ pc = [c \in Conns |-> "read"]
    /\ peer = [c \in Conns |-> "open"]
    /\ sent = 0
    /\ arrived = [c \in Conns |-> <<>>]
    /\ history = <<>>
    /\ file = (IF data = <<>> THEN None ELSE Some(data))
    /\ proc = "serving"

\* the peer of c sends the bytes of m
Send(c, m) ==
    /\ peer[c] = "open" /\ pc[c] # "closed"
    /\ sent < MaxSends
    /\ inbox' = [inbox EXCEPT ![c] = @ \o m]
    /\ sent' = sent + 1
    /\ arrived' = [arrived EXCEPT ![c] = Append(@, m)]
    /\ call' = NoCall
    /\ UNCHANGED <<data, clock, expire_log, buffer, outbox, pc, peer, history, harnessVars, diskVars>>

\* the peer of c closes its end once what it sent has been read
PeerClose(c) ==
    /\ peer[c] = "open" /\ inbox[c] = <<>>
    /\ peer' = [peer EXCEPT ![c] = "closed"]
    /\ call' = NoCall
    /\ UNCHANGED <<data, clock, expire_log, inbox, buffer, outbox, pc, sent, arrived, history, harnessVars, diskVars>>

\* the peer of c resets the connection once what it sent has been read
PeerReset(c) ==
    /\ peer[c] = "open" /\ inbox[c] = <<>>
    /\ peer' = [peer EXCEPT ![c] = "reset"]
    /\ call' = NoCall
    /\ UNCHANGED <<data, clock, expire_log, inbox, buffer, outbox, pc, sent, arrived, history, harnessVars, diskVars>>

\* one pass of the inner loop on buffer buf.  No command: back to reader.read.
\* A command: it is dispatched and its reply written; an exception of
\* get_command or handle_command is not caught and ends the handler (finally:
\* writer.close()), and so does a reset met by writer.drain().
LoopPass(c, buf) ==
    \E r \in {get_command(buf)} :
        IF r.raised
        THEN /\ buffer' = [buffer EXCEPT ![c] = buf]
             /\ pc' = [pc EXCEPT ![c] = "closed"]
             /\ call' = NoCall
             /\ UNCHANGED <<data, expire_log, outbox, history>>
        ELSE IF IsNone(r.command)
        THEN /\ buffer' = [buffer EXCEPT ![c] = r.buffer]
             /\ pc' = [pc EXCEPT ![c] = "read"]
             /\ call' = NoCall
             /\ UNCHANGED <<data, expire_log, outbox, history>>
        ELSE \E h \in {handle_command(The(r.command), data, clock)} :
             /\ buffer' = [buffer EXCEPT ![c] = r.buffer]
             /\ data' = h.data
             /\ call' = [conn |-> c, args |-> r.command, reply |-> h.reply]
             /\ expire_log' = Logged(The(r.command), data, clock, expire_log)
             /\ history' = Append(history, [conn |-> c, args |-> The(r.command),
                                            now |-> clock])
             /\ outbox' = IF IsNone(h.reply) THEN outbox
                          ELSE [outbox EXCEPT ![c] = Append(@, The(h.reply))]
             /\ pc' = IF IsNone(h.reply) \/ peer[c] = "reset"
                      THEN [pc EXCEPT ![c] = "closed"]
                      ELSE [pc EXCEPT ![c] = "drain"]

\* chunk = await reader.read(1024) returns n bytes; parser.feed(chunk); first pass
ReadChunk(c, n) ==
    /\ pc[c] = "read" /\ peer[c] # "reset"
    /\ n \in 1..Len(inbox[c])
    /\ inbox' = [inbox EXCEPT ![c] = SubSeq(@, n + 1, Len(@))]
    /\ LoopPass(c, feed(buffer[c], SubSeq(inbox[c], 1, n)))
    /\ UNCHANGED <<clock, peer, sent, arrived, harnessVars, diskVars>>

\* reader.read returns b"" at EOF: the loop breaks and the writer is closed
ReadEof(c) ==
    /\ pc[c] = "read" /\ peer[c] = "closed" /\ inbox[c] = <<>>
    /\ pc' = [pc EXCEPT ![c] = "closed"]
    /\ call' = NoCall
    /\ UNCHANGED <<data, clock, expire_log, inbox, buffer, outbox, peer, sent, arrived, history, harnessVars, diskVars>>

\* reader.read raises ConnectionResetError, which handle_client swallows
ConnectionReset(c) ==
    /\ pc[c] = "read" /\ peer[c] = "reset"
    /\ pc' = [pc EXCEPT ![c] = "closed"]
    /\ call' = NoCall
    /\ UNCHANGED <<data, clock, expire_log, inbox, buffer, outbox, peer, sent, arrived, history, harnessVars, diskVars>>

\* after await writer.drain(): the next pass of the inner loop
Drain(c) ==
    /\ pc[c] = "drain"
    /\ LoopPass(c, buffer[c])
    /\ UNCHANGED <<clock, inbox, peer, sent, arrived, harnessVars, diskVars>>

\* time passes, up to one tick past the start
ServerTick == clock < ClockStart + 1 /\ Tick

NextServer ==
    \/ \E c \in Conns : \E m \in Wire(c) : Send(c, m)
    \/ \E c \in Conns : PeerClose(c)
    \/ \E c \in Conns : PeerReset(c)
    \/ \E c \in Conns : \E n \in 1..Len(inbox[c]) : ReadChunk(c, n)
    \/ \E c \in Conns : ReadEof(c)
    \/ \E c \in Conns : ConnectionReset(c)
    \/ \E c \in Conns : Drain(c)
    \/ ServerTick

SpecServer == InitServer /\ [][NextServer]_vars

-----------------------------------------------------------------------------
(* One connection whose peer stays connected and sends malformed array frames
   and well-formed commands.  The event loop resumes a handler whose drain
   has completed: the inner loop of handle_client goes on until get_command
   returns None. *)

BadCount == <<"*", "x">> \o CRLF
BadBulkLength == <<"*", "1">> \o CRLF \o <<"$", "x">> \o CRLF
NoDollar == <<"*", "1">> \o CRLF \o <<"x">> \o CRLF
Malformed == {BadCount, BadBulkLength, NoDollar}

RecoveryWire == Malformed \cup {send(<<PING>>), inline(<<PING>>)}

InitRecovery ==
    /\ StoreInit /\ HarnessIdle /\ DiskIdle
    /\ inbox = [c \in Conns |-> <<>>]
    /\ buffer = [c \in Conns |-> <<>>]
    /\ outbox = [c \in Conns |-> <<>>]
    /\ pc = [c \in Conns |-> IF c = 1 THEN "read" ELSE "closed"]
    /\ peer = [c \in Conns |-> IF c = 1 THEN "open" ELSE "closed"]
    /\ sent = 0
    /\ arrived = [c \in Conns |-> <<>>]
    /\ history = <<>>

Reads(c) == \E n \in 1..Len(inbox[c]) : ReadChunk(c, n)

NextRecovery == (\E m \in RecoveryWire : Send(1, m)) \/ Reads(1) \/ Drain(1)

SpecRecovery == InitRecovery /\ [][NextRecovery]_vars /\ WF_vars(Drain(1))

-----------------------------------------------------------------------------
(* Vocabulary of the properties *)

Called(c) == ~IsNone(c.args)
Args(c) == The(c.args)

\* c is a call of command `name` with at least n elements in its vector
IsOp(c, name, n) == Called(c) /\ Len(Args(c)) >= n /\ upper(Args(c)[1]) = name

\* c is a call of command `name` on key
IsOpOn(c, name, key) == IsOp(c, name, 2) /\ Args(c)[2] = key

Listed(a) == {a[i] : i \in 2..Len(a)}

LiveEntries(d, now) == SelectSeq(d, LAMBDA e : Live(e, now))

KeysOf(d) == [i \in 1..Len(d) |-> d[i].key]

Nil == bulk_string(None)
OK == simple_string(<<"O", "K">>)

-----------------------------------------------------------------------------
(* C1: DEL k1..kn replies the number of distinct listed keys that were in the
   store immediately before the command.  The code replies 0 whenever a listed
   key was present: the statement is violated. *)
C1_DelRepliesCountOfPresentKeys ==
    [][IsOp(call', DEL, 2) =>
        call'.reply =
            Some(integer(Cardinality({k \in Listed(Args(call')) : Has(data, k)})))]_vars

(* C2: KEYS completes with an array reply listing exactly the live keys, and
   every entry that was expired at the scan has been removed when the reply is
   produced.  The code raises as soon as the scan meets an expired entry: the
   statement is violated. *)
C2_KeysListsLiveKeysAndPurges ==
    [][IsOp(call', KEYS, 1) =>
        /\ call'.reply = Some(ArrayReply(KeysOf(LiveEntries(data, clock))))
        /\ data' = LiveEntries(data, clock)]_vars

(* C3: TTL k on a key with an expiry: when expires_at - now <= 0 the entry is
   deleted and the reply is -2, otherwise the reply is the floor of the
   remaining seconds.  The code truncates toward zero and tests remaining < 0,
   so it replies 0 and keeps the entry: the statement is violated. *)
C3_TtlOfKeyWithExpiry ==
    [][\A k \in Keys :
        (IsOpOn(call', TTL, k) /\ Has(data, k) /\ ~IsNone(Entry(data, k).expires_at)) =>
            LET left == The(Entry(data, k).expires_at) - clock
            IN  IF left <= 0
                THEN call'.reply = Some(integer(0 - 2)) /\ ~Has(data', k)
                ELSE call'.reply = Some(integer(left \div TicksPerSec))]_vars

(* C4: SET k v replies OK whatever the prior state of k and leaves k with value
   v and no expiry; from then on, at every clock value and until a SET, EXPIRE
   or DEL names k, the entry stays as it is, GET k replies v and TTL k
   replies -1. *)
C4_SetOverwritesWithoutExpiry ==
    [][\A k \in Keys :
        /\ (IsOp(call', SET, 3) /\ Args(call')[2] = k) =>
              /\ call'.reply = Some(OK)
              /\ Has(data', k)
              /\ Entry(data', k) =
                    [key |-> k, value |-> Args(call')[3], expires_at |-> None]
        /\ (Has(data, k) /\ IsNone(Entry(data, k).expires_at)) =>
              /\ (~(Called(call') /\ Touches(Args(call'), k)) =>
                    Has(data', k) /\ Entry(data', k) = Entry(data, k))
              /\ (IsOpOn(call', GET, k) =>
                    call'.reply = Some(bulk_string(Some(Entry(data, k).value))))
              /\ (IsOpOn(call', TTL, k) => call'.reply = Some(integer(0 - 1)))]_vars

\* a SET has just overwritten a while b still carries an expiry, later than the start
C4_Witness ==
    /\ IsOp(call, SET, 3) /\ Args(call)[2] = KeyA /\ call.reply = Some(OK)
    /\ Has(data, KeyA) /\ IsNone(Entry(data, KeyA).expires_at)
    /\ Has(data, KeyB) /\ ~IsNone(Entry(data, KeyB).expires_at)
    /\ clock > ClockStart

(* C5: EXPIRE k s with s > 0 at clock t on a key without TTL replies 1, keeps
   the value and sets expires_at = t + s; while no other SET, EXPIRE or DEL
   names k, TTL k up to the expiry replies an integer in 0..s, GET k at a
   clock <= t + s replies the original value, and GET k at a clock > t + s
   replies nil and leaves k absent. *)
C5_ExpireThenTtlAndGet ==
    [][\A k \in Keys :
        /\ (Called(call') /\ ExpireOfFresh(Args(call'), data, k)) =>
              /\ call'.reply = Some(integer(1))
              /\ Has(data', k)
              /\ Entry(data', k) =
                    [key |-> k, value |-> Entry(data, k).value,
                     expires_at |->
                        Some(clock + The(IntParse(Args(call')[3])) * TicksPerSec)]
        /\ ~IsNone(expire_log[k]) =>
              LET l == The(expire_log[k])
                  e == l.at + l.seconds * TicksPerSec
              IN  /\ (IsOpOn(call', TTL, k) /\ clock <= e) =>
                        \E r \in 0..l.seconds : call'.reply = Some(integer(r))
                  /\ (IsOpOn(call', GET, k) /\ clock <= e) =>
                        call'.reply = Some(bulk_string(Some(l.value)))
                  /\ (IsOpOn(call', GET, k) /\ clock > e) =>
                        call'.reply = Some(Nil) /\ ~Has(data', k)]_vars

\* a GET after the expiry set by a logged EXPIRE has replied nil
C5_Witness ==
    /\ IsOpOn(call, GET, KeyA) /\ call.reply = Some(Nil)
    /\ ~IsNone(expire_log[KeyA])
    /\ clock > The(expire_log[KeyA]).at + The(expire_log[KeyA]).seconds * TicksPerSec
    /\ ~Has(data, KeyA)

(* C6: EXPIRE k s on a key that is absent, or present but already expired,
   replies 0 and leaves no entry for k; EXPIRE k x with x not an integer
   replies the 'not an integer' error and leaves the store as it was.  An
   entry whose expires_at is 0.0 is taken for one without expiry by
   is_expired, so EXPIRE replies 1 on it: the statement is violated. *)
C6_ExpireOfAbsentOrExpiredKey ==
    [][\A k \in Keys :
        (IsOp(call', EXPIRE, 3) /\ Args(call')[2] = k) =>
            IF IsNone(IntParse(Args(call')[3]))
            THEN call'.reply = Some(error(ErrNotInteger)) /\ data' = data
            ELSE (~Has(data, k) \/ ~Live(Entry(data, k), clock)) =>
                    call'.reply = Some(integer(0)) /\ ~Has(data', k)]_vars

(* C7: after DEL k1..kn no listed key is in the store (duplicates, live,
   expired or absent alike) and the other entries are unchanged; a key that
   is not in the store gets GET nil and TTL -2, and only a SET of that key
   brings it back. *)
C7_DelRemovesListedKeysOnly ==
    [][/\ IsOp(call', DEL, 2) =>
            /\ \A k \in Listed(Args(call')) : ~Has(data', k)
            /\ data' = SelectSeq(data, LAMBDA e : e.key \notin Listed(Args(call')))
       /\ \A k \in Keys :
            ~Has(data, k) =>
                /\ (IsOpOn(call', GET, k) => call'.reply = Some(Nil) /\ ~Has(data', k))
                /\ (IsOpOn(call', TTL, k) =>
                        call'.reply = Some(integer(0 - 2)) /\ ~Has(data', k))
                /\ (Has(data', k) => IsOp(call', SET, 3) /\ Args(call')[2] = k)]_vars

\* a DEL naming a and b has emptied the store, later than the start
C7_Witness ==
    /\ call.args = Some(<<DEL, KeyA, KeyB>>)
    /\ data = <<>>
    /\ clock > ClockStart

(* C8: a well-formed command, array or inline, cut into non-empty chunks in
   any way and fed chunk by chunk with get_command called after each feed,
   yields no command before the last chunk is fed, and after it the command
   vector and the residual buffer that feeding all bytes at once yields. *)
C8_ChunkedFeedEqualsWholeFeed ==
    LET one == get_command(feed(<<>>, whole))
    IN  (whole \in WellFormed /\ turn = "feed" /\ stream # whole) =>
            /\ ~one.raised /\ ~IsNone(one.command)
            /\ IF stream # <<>>
               THEN got = NoResult
               ELSE /\ got = [raised |-> FALSE, command |-> one.command]
                    /\ parser = one.buffer

\* all but the last byte of an array command has been fed, in two chunks or
\* more or in one, and get_command has answered that there is no command yet
C8_Witness ==
    /\ whole = send(<<SET, KeyB, CRLF>>)
    /\ Len(stream) = 1
    /\ turn = "feed"
    /\ got = NoResult
    /\ parser = SubSeq(whole, 1, Len(whole) - 1)

KnownCommands == {PING, SET, GET, EXPIRE, TTL, DEL, KEYS}

\* the command errors of the spec's taxonomy
CommandError(args) ==
    \/ args = <<>>
    \/ /\ args # <<>>
       /\ \/ upper(args[1]) \notin KnownCommands
          \/ upper(args[1]) \in {SET, EXPIRE} /\ Len(args) < 3
          \/ upper(args[1]) \in {GET, TTL, DEL} /\ Len(args) < 2
          \/ upper(args[1]) = EXPIRE /\ Len(args) >= 3 /\ IsNone(IntParse(args[3]))

(* C9: every command error (empty vector from '*0' or a blank line, unknown
   command, too few arguments, non-integer EXPIRE seconds) writes an error
   reply to the issuing connection, leaves the store unchanged, writes
   nothing to and changes nothing of any other connection, and leaves the
   issuing connection in its loop (unless its peer has reset it). *)
C9_CommandErrorIsLocal ==
    [][\A c \in Conns :
        (Called(call') /\ call'.conn = c /\ CommandError(Args(call'))) =>
            /\ ~IsNone(call'.reply)
            /\ Head(The(call'.reply)) = "-"
            /\ outbox'[c] = Append(outbox[c], The(call'.reply))
            /\ data' = data
            /\ \A d \in Conns \ {c} :
                  /\ outbox'[d] = outbox[d]
                  /\ pc'[d] = pc[d]
                  /\ buffer'[d] = buffer[d]
                  /\ inbox'[d] = inbox[d]
            /\ (peer[c] # "reset" => pc'[c] = "drain")]_vars

\* connection 1 got an error reply and then, for a later command, OK; the
\* store is not empty and nothing was written to connection 2
C9_Witness ==
    /\ Len(outbox[1]) = 2
    /\ Head(outbox[1][1]) = "-"
    /\ outbox[1][2] = OK
    /\ data # <<>>
    /\ outbox[2] = <<>>
    /\ pc[2] # "closed"

(* C10: a SET vector with any number of arguments other than two replies an
   error naming SET and does not modify the store.  The code only rejects
   fewer than two and accepts SET k v extra: the statement is violated. *)
C10_SetRejectsOtherArities ==
    [][(IsOp(call', SET, 1) /\ Len(Args(call')) # 3) =>
        call'.reply = Some(error(ErrArity(SET))) /\ data' = data]_vars

(* C14: for every key that has no entry in the store, GET replies nil and TTL
   replies -2, and neither command creates an entry or changes any entry. *)
C14_AbsentKeyGetNilTtlMinusTwo ==
    [][\A k \in Keys :
        ~Has(data, k) =>
            /\ (IsOpOn(call', GET, k) => call'.reply = Some(Nil) /\ data' = data)
            /\ (IsOpOn(call', TTL, k) =>
                  call'.reply = Some(integer(0 - 2)) /\ data' = data)]_vars

\* TTL of the absent key b has replied -2 while a is stored with an expiry
C14_Witness ==
    /\ IsOpOn(call, TTL, KeyB) /\ call.reply = Some(integer(0 - 2))
    /\ ~Has(data, KeyB)
    /\ Has(data, KeyA) /\ ~IsNone(Entry(data, KeyA).expires_at)

(* C18: EXPIRE k s with s <= 0 on a live key replies 1, and the next access to
   k (GET, TTL, EXPIRE or KEYS), at any clock not earlier than the EXPIRE,
   treats k as absent (GET nil, TTL -2, EXPIRE 0) and removes its entry.
   Stated for the access that follows the EXPIRE at once, at the same clock
   value.  The code then keeps the entry of an EXPIRE k 0 for GET, TTL
   (reply 0), EXPIRE (reply 1) and KEYS: the statement is violated. *)
C18_ExpireToPastMakesKeyAbsent ==
    [][\A k \in Keys :
        /\ (Called(call') /\ ExpireToPast(Args(call'), data, k, clock)) =>
              call'.reply = Some(integer(1))
        /\ (Called(call) /\ call.reply = Some(integer(1))
                /\ Len(Args(call)) >= 3 /\ Args(call)[2] = k
                /\ upper(Args(call)[1]) = EXPIRE
                /\ The(IntParse(Args(call)[3])) <= 0
                /\ Called(call') /\ Accesses(Args(call'), k)
                /\ upper(Args(call')[1]) \in {GET, TTL, EXPIRE, KEYS}) =>
              /\ ~Has(data', k)
              /\ (IsOpOn(call', GET, k) => call'.reply = Some(Nil))
              /\ (IsOpOn(call', TTL, k) => call'.reply = Some(integer(0 - 2)))
              /\ (IsOpOn(call', EXPIRE, k) => call'.reply = Some(integer(0)))
              /\ (IsOp(call', KEYS, 1) =>
                    call'.reply = Some(ArrayReply(KeysOf(SelectSeq(data,
                                        LAMBDA e : e.key # k))))) ]_vars

(* C20: an entry whose expiry is absent or not yet passed is removed only by a
   DEL that names its key: GET, TTL, EXPIRE and KEYS remove only entries whose
   expiry has passed, and SET changes no entry but that of its own key. *)
C20_LazyDeletionKeepsLiveEntries ==
    [][\A k \in Keys :
        /\ (Has(data, k) /\ Live(Entry(data, k), clock) /\ ~Has(data', k)) =>
              IsOp(call', DEL, 2) /\ k \in Listed(Args(call'))
        /\ (IsOp(call', SET, 1) /\ ~IsOpOn(call', SET, k)) =>
              /\ Has(data', k) = Has(data, k)
              /\ Has(data, k) => Entry(data', k) = Entry(data, k)]_vars

\* TTL of b at the very instant of its expiry has replied 0 and kept b, after
\* a was given a past expiry by EXPIRE
C20_Witness ==
    /\ IsOpOn(call, TTL, KeyB) /\ call.reply = Some(integer(0))
    /\ Has(data, KeyB) /\ Entry(data, KeyB).expires_at = Some(clock)
    /\ Has(data, KeyA) /\ ~Live(Entry(data, KeyA), clock)

(* C11: save_data at clock t1 writes exactly the entries whose expiry is
   absent or not passed at t1 and does not modify the store; load_data at
   clock t2 into an empty store inserts exactly the records whose expiry is
   absent or not passed at t2, value and expiry unchanged, so that a snapshot
   of one live and one expired record yields exactly the live key, readable
   via GET.  The code tests `expires_at and ...`, so an entry whose expiry is
   0.0 is written and loaded although its expiry has passed: the statement is
   violated. *)
C11_SnapshotRoundTrip ==
    [][/\ (proc = "serving" /\ proc' = "stopped") =>
              /\ file' = Some(LiveEntries(data, clock))
              /\ data' = data
       /\ (proc = "start" /\ proc' = "serving") =>
              data' = (IF IsNone(file) THEN <<>> ELSE LiveEntries(The(file), clock))
       /\ (proc = "serving" /\ file = Some(ScenarioFile) /\ IsOpOn(call', GET, KeyA)
              /\ KeysOf(data) = <<KeyA>>) =>
              call'.reply = Some(bulk_string(Some(<<"x">>)))]_vars

(* C13: the array reply of KEYS, fed to a fresh parser, is decoded by
   get_command into exactly the list of keys, in order, with the buffer fully
   consumed; the bulk reply of bulk_string is decoded by the bulk-string
   parser into exactly the value.  bulk_string and KEYS write the number of
   characters as the length, the parser counts bytes, so that a string with a
   character of more than one byte does not come back: the statement is
   violated. *)
C13_CodecRoundTrip ==
    [][/\ \A ks \in KeyLists :
            (whole = KeysReply(ks) /\ turn = "get" /\ parser = whole) =>
                /\ got' = [raised |-> FALSE, command |-> Some(ks)]
                /\ parser' = <<>>
       /\ \A v \in CodecValues :
            (whole = bulk_string(Some(v)) /\ turn = "get" /\ parser = whole) =>
                got' = [raised |-> FALSE, command |-> Some(<<v>>)]]_vars

\* the position after the array frame at the front of buf, by the grammar of
\* the protocol (count line, then per element `$`, a length line and, unless
\* the length is negative, the payload and CR LF), or -1 while no complete
\* frame is there
RECURSIVE ElementsEnd(_, _, _)
ElementsEnd(buf, left, pos) ==
    IF left <= 0 THEN pos
    ELSE IF pos >= Len(buf) \/ buf[pos + 1] # "$" \/ Find(buf, pos) = 0 - 1 THEN 0 - 1
    ELSE LET end == Find(buf, pos)
             length == IntParse(Slice(buf, pos + 1, end))
         IN  IF IsNone(length) THEN 0 - 1
             ELSE IF The(length) < 0 THEN ElementsEnd(buf, left - 1, end + 2)
             ELSE IF Len(buf) < end + 2 + The(length) + 2 THEN 0 - 1
             ELSE ElementsEnd(buf, left - 1, end + 2 + The(length) + 2)

FrameEnd(buf) ==
    IF Find(buf, 0) = 0 - 1 \/ IsNone(IntParse(Slice(buf, 1, Find(buf, 0)))) THEN 0 - 1
    ELSE ElementsEnd(buf, The(IntParse(Slice(buf, 1, Find(buf, 0)))), Find(buf, 0) + 2)

ArrayFrames == {send(a) : a \in ArrayCommands} \cup Pipelined

(* C17: get_command on an array frame with a numeric count either returns no
   command and leaves the buffer unchanged (an element has not fully
   arrived), or returns the command vector and removes from the front of the
   buffer exactly the bytes of that frame; feed only appends.  For an element
   `$-1` the code waits for one byte more than the frame and removes it with
   the frame: the statement is violated. *)
C17_GetCommandFrameEffect ==
    [][/\ (turn = "get" /\ whole \in ArrayFrames /\ parser # <<>> /\ parser[1] = "*") =>
            IF FrameEnd(parser) = 0 - 1
            THEN got' = NoResult /\ parser' = parser
            ELSE /\ ~got'.raised /\ ~IsNone(got'.command)
                 /\ parser' = SliceFrom(parser, FrameEnd(parser))
       /\ turn = "feed" =>
            \E n \in 1..Len(stream) : parser' = parser \o SubSeq(stream, 1, n)]_vars

\* the result of running the calls of h one after the other on the dict d
RECURSIVE Replay(_, _)
Replay(h, d) ==
    IF h = <<>> THEN d
    ELSE Replay(Tail(h), handle_command(Head(h).args, d, Head(h).now).data)

\* the command vectors of the messages on the wire
WireCommands ==
    {<<SET, KeyA, <<"y">>>>, <<KEYS>>, <<>>, <<<<"F", "O", "O">>>>,
     <<EXPIRE, KeyA, NotAnInteger>>} \cup TooFew
Meaning(m) == CHOOSE a \in WireCommands : m \in {inline(a), send(a)}

\* the calls made for connection c, in order
CallsOf(c) == SelectSeq(history, LAMBDA h : h.conn = c)

(* C12: each command's reads and writes of the store are one atomic step, so
   that every reachable store is the result of some sequential order of whole
   commands; on each connection the commands are dispatched, and their replies
   written, in the order their bytes arrived, one reply per command.  A KEYS
   that raises is dispatched and gets no reply: the statement is violated. *)
C12_AtomicCommandsInArrivalOrder ==
    /\ [](data = Replay(history, load_data(file, <<>>, ClockStart)))
    /\ [][data' # data =>
            /\ Called(call')
            /\ data' = handle_command(Args(call'), data, clock).data]_vars
    /\ [](\A c \in Conns :
            /\ Len(CallsOf(c)) <= Len(arrived[c])
            /\ \A i \in 1..Len(CallsOf(c)) :
                  /\ CallsOf(c)[i].args = Meaning(arrived[c][i])
                  /\ i <= Len(outbox[c])
            /\ Len(outbox[c]) = Len(CallsOf(c)))

\* the reply PONG has been written to connection c
Ponged(c) == \E i \in 1..Len(outbox[c]) : outbox[c][i] = simple_string(PING_REPLY)

(* C15: when the buffer of a connection starts with an array frame with a
   malformed prefix (non-numeric count, non-numeric bulk length, element not
   starting with `$`), the offending bytes are discarded and a well-formed
   command that arrives later on the connection is eventually dispatched and
   replied to.  Stated from the moment the handler has read all the bytes of
   both.  The code discards nothing for a malformed element and keeps
   answering `no command`, and after dropping the `*` of a malformed count it
   awaits more bytes: the statement is violated. *)
C15_FramingErrorRecovery ==
    \A m \in Malformed :
        (arrived[1] = <<m, send(<<PING>>)>> /\ inbox[1] = <<>>) ~> Ponged(1)

\* buf holds a complete command at its front: a complete inline line, or a
\* complete array frame
HoldsCommand(buf) ==
    /\ buf # <<>>
    /\ IF buf[1] = "*" THEN FrameEnd(buf) # 0 - 1 ELSE Find(buf, 0) # 0 - 1

(* C16: whenever a handler awaits data, the front of its buffer holds no
   complete command, also after a malformed array count byte has been
   dropped.  After dropping the byte the code returns to reader.read with the
   rest of the line, a complete inline command, in the buffer: the statement
   is violated. *)
C16_NoCommandLeftWhenAwaiting ==
    \A c \in Conns : pc[c] = "read" => ~HoldsCommand(buffer[c])

(* C19: a handler terminates only because its peer closed or reset the
   connection, never because of the content of a command it dispatched; the
   teardown leaves the store unchanged, and every other connection stays as
   it is.  A KEYS that meets an expired entry raises and ends the handler
   while its peer is connected: the statement is violated. *)
C19_HandlerEndsOnlyOnPeerCloseOrReset ==
    [][\A c \in Conns :
        (pc[c] # "closed" /\ pc'[c] = "closed") =>
            /\ peer[c] \in {"closed", "reset"}
            /\ (~Called(call') => data' = data)
            /\ \A d \in Conns \ {c} :
                  /\ pc'[d] = pc[d]
                  /\ buffer'[d] = buffer[d]
                  /\ inbox'[d] = inbox[d]
                  /\ outbox'[d] = outbox[d]]_vars

====
